---- MODULE Spec2Model ----
(***************************************************************************)
(* stats-agent (tools/stats-agent/src/main.rs): a system-metrics sampler.  *)
(* The model follows main, daemon_mode, json_once and collect_stats        *)
(* statement by statement.  Percentages are fixed-point integers: a raw    *)
(* usage reported by the metrics handle is in thousandths of a percent     *)
(* (0 .. 100000), a value rounded to two decimals is in hundredths of a    *)
(* percent (0 .. 10000).                                                   *)
(***************************************************************************)
EXTENDS Integers, Sequences, FiniteSets

\* ---------------------------------------------------------------- bounds
\* Daemon ticks whose side effects are recorded in the trace.
MaxTicks == 3
\* Concurrent callers of collect_stats in the embedded (multi-caller) setting.
NCallers == 2
\* Largest number of cores, processes, volumes, interfaces the OS reports.
MaxCores == 3
MaxProcs == 11
MaxDisks == 3
MaxNets == 2

\* ------------------------------------------------------ program constants
\* procs.truncate(10)
TopN == 10
\* unwrap_or(5): the default daemon interval, seconds
DefaultInterval == 5
\* Duration::from_millis(500): the warm-up delay
WarmupMs == 500

\* ----------------------------------------------------------------- basics
Main == 0
Callers == 1..NCallers
Threads == 0..NCallers
NoThread == -1

\* Option<T>: None is the empty sequence, Some(x) the one-element sequence.
None == << >>
Some(x) == << x >>
IsSome(o) == Len(o) = 1
Unwrap(o) == o[1]

Min(a, b) == IF a <= b THEN a ELSE b

SeqsUpTo(S, n) == UNION { [1..k -> S] : k \in 0..n }

RECURSIVE Sum(_)
Sum(s) == IF s = << >> THEN 0 ELSE s[1] + Sum(Tail(s))

\* --------------------------------------------------------- pure functions
\* (x * 100.0).round() / 100.0 : round to two decimals, to nearest, halves
\* away from zero.  x in thousandths of a percent, result in hundredths.
Round2(x) == (x + 5) \div 10

\* sys.cpus().iter().map(|c| round2(c.cpu_usage())).collect()
CpuPerCore(cpus) == [i \in DOMAIN cpus |-> Round2(cpus[i])]

\* if cpu.is_empty() { 0.0 } else { (sum / len * 100.0).round() / 100.0 }
\* The mean of values held in hundredths, rounded to the nearest hundredth.
CpuAvgTrunc(cpu) == IF cpu = << >> THEN 0 ELSE Sum(cpu) \div Len(cpu)
CpuAvg(cpu) ==
    IF cpu = << >> THEN 0
    ELSE (2 * Sum(cpu) + Len(cpu)) \div (2 * Len(cpu))

\* |(pid, p)| ProcessStats { pid, memory: p.memory(), cpu: round2(p.cpu_usage()) }
ToProcessStats(p) == [pid |-> p.pid, memory |-> p.memory, cpu |-> Round2(p.cpu_usage)]

\* |a, b| b.cpu.partial_cmp(&a.cpu).unwrap_or(Equal) : descending by cpu
CmpAsc(a, b) ==
    IF a.cpu < b.cpu THEN "Less" ELSE IF a.cpu > b.cpu THEN "Greater" ELSE "Equal"
CmpDesc(a, b) ==
    IF b.cpu < a.cpu THEN "Less" ELSE IF b.cpu > a.cpu THEN "Greater" ELSE "Equal"

\* An unstable placement: the element goes before the elements equal to it.
RECURSIVE InsertSortedUnstable(_, _)
InsertSortedUnstable(sorted, x) ==
    IF sorted = << >> THEN << x >>
    ELSE LET last == sorted[Len(sorted)]
         IN IF CmpDesc(last, x) # "Less"
            THEN Append(InsertSortedUnstable(SubSeq(sorted, 1, Len(sorted) - 1), x), last)
            ELSE Append(sorted, x)

\* Vec::sort_by is a stable sort: an element is placed after every element
\* that does not compare Greater than it.
RECURSIVE InsertSorted(_, _)
InsertSorted(sorted, x) ==
    IF sorted = << >> THEN << x >>
    ELSE LET last == sorted[Len(sorted)]
         IN IF CmpDesc(last, x) = "Greater"
            THEN Append(InsertSorted(SubSeq(sorted, 1, Len(sorted) - 1), x), last)
            ELSE Append(sorted, x)

RECURSIVE SortBy(_)
SortBy(s) ==
    IF s = << >> THEN << >>
    ELSE InsertSorted(SortBy(SubSeq(s, 1, Len(s) - 1)), s[Len(s)])

\* Vec::truncate(n)
Truncate(s, n) == SubSeq(s, 1, Min(Len(s), n))

\* lines 204-221: map, sort_by, truncate(10)
TopProcesses(table) ==
    Truncate(SortBy([i \in DOMAIN table |-> ToProcessStats(table[i])]), TopN)

\* .filter(|d| d.total_space() > 0)
KeepDisk(d) == d.total_space > 0

\* .map(|d| DiskStats { name, available, total })
ToDiskStats(d) == [name |-> d.name, available |-> d.available_space, total |-> d.total_space]

RECURSIVE FilterMapDisks(_)
FilterMapDisks(list) ==
    IF list = << >> THEN << >>
    ELSE IF KeepDisk(Head(list))
         THEN << ToDiskStats(Head(list)) >> \o FilterMapDisks(Tail(list))
         ELSE FilterMapDisks(Tail(list))

\* .filter(|(_, n)| n.total_received() > 0 || n.total_transmitted() > 0)
KeepNetRxOnly(n) == n.total_received > 0
KeepNet(n) == n.total_received > 0 \/ n.total_transmitted > 0

\* .map(|(name, n)| NetStats { interface, rx_bytes, tx_bytes, .. })
ToNetStats(n) ==
    [interface |-> n.name, rx_bytes |-> n.total_received, tx_bytes |-> n.total_transmitted]

RECURSIVE FilterMapNets(_)
FilterMapNets(list) ==
    IF list = << >> THEN << >>
    ELSE IF KeepNet(Head(list))
         THEN << ToNetStats(Head(list)) >> \o FilterMapNets(Tail(list))
         ELSE FilterMapNets(Tail(list))

\* str::parse::<u64>() on a string of characters: an optional leading "+",
\* then one or more decimal digits; anything else is an error (None).
DigitValue(c) ==
    CASE c = "0" -> 0 [] c = "1" -> 1 [] c = "2" -> 2 [] c = "3" -> 3 [] c = "4" -> 4
      [] c = "5" -> 5 [] c = "6" -> 6 [] c = "7" -> 7 [] c = "8" -> 8 [] c = "9" -> 9
      [] OTHER -> -1

RECURSIVE ParseDigits(_, _)
ParseDigits(s, acc) ==
    IF s = << >> THEN Some(acc)
    ELSE IF DigitValue(Head(s)) < 0 THEN None
         ELSE ParseDigits(Tail(s), 10 * acc + DigitValue(Head(s)))

ParseU64(s) ==
    IF s = << >> THEN None
    ELSE IF Head(s) = "+"
         THEN (IF Tail(s) = << >> THEN None ELSE ParseDigits(Tail(s), 0))
         ELSE ParseDigits(s, 0)

\* An unparseable interval read as zero (unwrap_or_default).
IntervalOfOrZero(argv) ==
    IF Len(argv) < 3 THEN DefaultInterval
    ELSE IF IsSome(ParseU64(argv[3])) THEN Unwrap(ParseU64(argv[3]))
         ELSE 0

\* args.get(2).and_then(|s| s.parse().ok()).unwrap_or(5)
IntervalOf(argv) ==
    IF Len(argv) < 3 THEN DefaultInterval
    ELSE IF IsSome(ParseU64(argv[3])) THEN Unwrap(ParseU64(argv[3]))
         ELSE DefaultInterval

SkipProcessesNever(v) == FALSE
\* #[serde(skip_serializing_if = "Vec::is_empty")] processes
SkipProcesses(v) == v = << >>
SkipOsAlways(o) == TRUE
\* #[serde(skip_serializing_if = "Option::is_none")] os
SkipOs(o) == o = None

\* The fields #[derive(Serialize)] writes for a Stats value.
JsonKeys(s) ==
    {"cpu", "cpu_avg", "memory", "disks", "network"}
      \cup (IF SkipProcesses(s.processes) THEN {} ELSE {"processes"})
      \cup (IF SkipOs(s.os) THEN {} ELSE {"os"})

\* serde_json::to_string / to_string_pretty on success: the JSON object, as
\* the function from the written field names to their values.
ToJson(s) == [k \in JsonKeys(s) |-> IF k = "os" THEN Unwrap(s.os) ELSE s[k]]

\* ------------------------------------------------------------ environment
\* What the operating system reports when asked.  `profile` selects how much
\* of it varies: "small" fixes one reading per query, the other profiles let
\* one kind of reading range over every list up to its bound.
Profiles == {"small", "cpu", "procs", "disks", "nets"}

CpuRawValues == {0, 4, 5, 99994, 100000}
ProcRawValues == {0, 1255}
DiskTotals == {0, 1, 2}
NetCounters == {0, 1}

OsInfoValue == [name |-> "Linux", kernel |-> "6.1", version |-> "12", arch |-> "x86_64"]

MkProc(i, raw) == [pid |-> i, memory |-> 1, cpu_usage |-> raw]
MkDisk(i, tot) == [name |-> i, available_space |-> tot \div 2, total_space |-> tot]
MkNet(i, rx, tx) == [name |-> i, total_received |-> rx, total_transmitted |-> tx]

\* Per-core usage a CPU refresh can compute.  The first refresh of a handle
\* has no baseline: it discovers the cores and reads zero for each of them;
\* later refreshes report a usage for each of the same cores.
EnvCpu(p, sys) ==
    IF sys.cpu_refreshes = 0
    THEN IF p = "cpu" THEN { [i \in 1..k |-> 0] : k \in 0..MaxCores }
                      ELSE { <<0, 0>> }
    ELSE IF p = "cpu" THEN [1..Len(sys.cpus) -> CpuRawValues]
                      ELSE [1..Len(sys.cpus) -> {1234}]

EnvMemory(p) == { [total |-> 8, used |-> 3, swap_total |-> 2, swap_used |-> 0] }

EnvProcs(p) ==
    IF p = "procs"
    THEN { [i \in DOMAIN v |-> MkProc(i, v[i])] : v \in SeqsUpTo(ProcRawValues, MaxProcs) }
    ELSE { << >>, << MkProc(1, 0), MkProc(2, 2505), MkProc(3, 2505) >> }

EnvDisks(p) ==
    IF p = "disks"
    THEN { [i \in DOMAIN v |-> MkDisk(i, v[i])] : v \in SeqsUpTo(DiskTotals, MaxDisks) }
    ELSE { << MkDisk(1, 0), MkDisk(2, 50) >> }

EnvNets(p) ==
    IF p = "nets"
    THEN { [i \in DOMAIN v |-> MkNet(i, v[i][1], v[i][2])] :
             v \in SeqsUpTo(NetCounters \X NetCounters, MaxNets) }
    ELSE { << MkNet(1, 0, 0), MkNet(2, 7, 0) >> }

\* ------------------------------------------------------------------ state
VARIABLES
    profile,     \* how much of the environment varies (fixed per run)
    argv,        \* env::args(): <<program, command, interval characters>>
    pc,          \* per thread: the statement it is about to execute
    SYS,         \* lazy_static SYS: the mutex and the System handle in it
    interval,    \* daemon_mode: interval_secs
    os_info,     \* daemon_mode: os_info
    first,       \* daemon_mode: first
    frame,       \* per thread: the locals of its collect_stats call
    stats,       \* per thread: the Stats value collect_stats returned
    json,        \* the Result of serde_json::to_string(_pretty)
    trace,       \* the main thread's side effects, in order
    tick,        \* collect_stats calls the main thread has started
    exit_code    \* the process exit status, once it has exited

vars == << profile, argv, pc, SYS, interval, os_info, first, frame, stats,
           json, trace, tick, exit_code >>

\* System::new(): nothing refreshed yet.
NewSystem ==
    [cpus |-> << >>, cpu_refreshes |-> 0, memory |-> None, processes |-> << >>,
     cpu_by |-> NoThread, mem_by |-> NoThread, proc_by |-> NoThread]

\* A handle that has had its warm-up refresh (cores discovered, baseline set).
WarmedSystems ==
    { [NewSystem EXCEPT !.cpus = c, !.cpu_refreshes = 1] :
        c \in { [i \in 1..k |-> 0] : k \in 0..MaxCores } }

\* The locals of collect_stats before its first statement.  cpu_from,
\* mem_from and proc_from name the thread whose refresh produced the values
\* this call read from the handle.
NewFrame(os, include) ==
    [os_info |-> os, include_processes |-> include,
     cpu |-> << >>, cpu_avg |-> 0, memory |-> None, processes |-> << >>,
     disks_info |-> << >>, disks |-> << >>, networks |-> << >>, network |-> << >>,
     cpu_from |-> NoThread, mem_from |-> NoThread, proc_from |-> NoThread]

Event(op, arg) == [op |-> op, arg |-> arg]

\* The main thread's side effects are recorded for the first MaxTicks ticks.
Log(t, e) == IF t = Main /\ tick <= MaxTicks THEN Append(trace, e) ELSE trace

Goto(t, label) == pc' = [pc EXCEPT ![t] = label]

Command == IF Len(argv) > 1 THEN argv[2] ELSE "json"

\* ------------------------------------------------------- the SYS mutex
\* SYS.lock(): lazy_static builds the handle on first use; lock() blocks
\* while another guard is alive.
CanLockAlways(m) == TRUE
CanLock(m) == m.locked_by = NoThread

\* A handle built anew by every lock() instead of once.
LockedFresh(m, t) ==
    [m EXCEPT !.locked_by = t, !.created = Min(m.created + 1, 2), !.sys = NewSystem]

Locked(m, t) ==
    [m EXCEPT !.locked_by = t,
              !.created = IF m.created = 0 THEN 1 ELSE m.created]

\* The guard kept alive to the end of the function.
UnlockedLate(m) == m
\* The guard goes out of scope / drop(sys).
Unlocked(m) == [m EXCEPT !.locked_by = NoThread]

\* sys.refresh_cpu_specifics(CpuRefreshKind::everything())
RefreshCpu(m, t, reading) ==
    [m EXCEPT !.sys.cpus = reading,
              !.sys.cpu_refreshes = Min(m.sys.cpu_refreshes + 1, 2),
              !.sys.cpu_by = t]

\* sys.refresh_memory_specifics(..)
RefreshMemory(m, t, reading) ==
    [m EXCEPT !.sys.memory = Some(reading), !.sys.mem_by = t]

\* sys.refresh_processes_specifics(All, true, ..)
RefreshProcesses(m, t, table) ==
    [m EXCEPT !.sys.processes = table, !.sys.proc_by = t]

\* ---------------------------------------------------------- collect_stats
\* Where collect_stats returns to: daemon_mode (line 148), json_once
\* (line 299), or the embedding caller, which samples again and again (once
\* only when a whole kind of OS reading is being ranged over).
ReturnPc(t) ==
    IF t # Main THEN (IF profile = "small" THEN "call" ELSE "returned")
    ELSE IF Command = "daemon" THEN "dm_clear_first" ELSE "jo_serialize"

\* line 169: let mut sys = SYS.lock().unwrap();
CsLock(t) ==
    /\ pc[t] = "cs_lock"
    /\ CanLock(SYS)
    /\ SYS' = Locked(SYS, t)
    /\ trace' = Log(t, Event("lock", "collect_stats"))
    /\ Goto(t, "cs_refresh_memory")
    /\ UNCHANGED << profile, argv, interval, os_info, first, frame, stats, json,
                    tick, exit_code >>

\* line 172: sys.refresh_memory_specifics(..)
CsRefreshMemory(t) ==
    /\ pc[t] = "cs_refresh_memory"
    /\ \E m \in EnvMemory(profile) : SYS' = RefreshMemory(SYS, t, m)
    /\ trace' = Log(t, Event("refresh_memory", "collect_stats"))
    /\ Goto(t, "cs_refresh_cpu")
    /\ UNCHANGED << profile, argv, interval, os_info, first, frame, stats, json,
                    tick, exit_code >>

\* line 173: sys.refresh_cpu_specifics(..)
CsRefreshCpu(t) ==
    /\ pc[t] = "cs_refresh_cpu"
    /\ \E c \in EnvCpu(profile, SYS.sys) : SYS' = RefreshCpu(SYS, t, c)
    /\ trace' = Log(t, Event("refresh_cpu", "collect_stats"))
    /\ Goto(t, "cs_read_cpu")
    /\ UNCHANGED << profile, argv, interval, os_info, first, frame, stats, json,
                    tick, exit_code >>

\* lines 176-186: cpu, cpu_avg
CsReadCpu(t) ==
    /\ pc[t] = "cs_read_cpu"
    /\ LET cpu == CpuPerCore(SYS.sys.cpus)
       IN frame' = [frame EXCEPT ![t].cpu = cpu,
                                 ![t].cpu_avg = CpuAvg(cpu),
                                 ![t].cpu_from = SYS.sys.cpu_by]
    /\ Goto(t, "cs_read_memory")
    /\ UNCHANGED << profile, argv, SYS, interval, os_info, first, stats, json,
                    trace, tick, exit_code >>

\* lines 189-194: memory
CsReadMemory(t) ==
    /\ pc[t] = "cs_read_memory"
    /\ frame' = [frame EXCEPT ![t].memory = SYS.sys.memory,
                              ![t].mem_from = SYS.sys.mem_by]
    /\ Goto(t, IF frame[t].include_processes THEN "cs_refresh_processes"
                                              ELSE "cs_no_processes")
    /\ UNCHANGED << profile, argv, SYS, interval, os_info, first, stats, json,
                    trace, tick, exit_code >>

\* lines 198-202: sys.refresh_processes_specifics(All, true, ..)
CsRefreshProcesses(t) ==
    /\ pc[t] = "cs_refresh_processes"
    /\ \E table \in EnvProcs(profile) : SYS' = RefreshProcesses(SYS, t, table)
    /\ trace' = Log(t, Event("refresh_processes", "collect_stats"))
    /\ Goto(t, "cs_rank_processes")
    /\ UNCHANGED << profile, argv, interval, os_info, first, frame, stats, json,
                    tick, exit_code >>

\* lines 204-221: read the table, sort by cpu descending, keep ten
CsRankProcesses(t) ==
    /\ pc[t] = "cs_rank_processes"
    /\ frame' = [frame EXCEPT ![t].processes = TopProcesses(SYS.sys.processes),
                              ![t].proc_from = SYS.sys.proc_by]
    /\ Goto(t, "cs_drop")
    /\ UNCHANGED << profile, argv, SYS, interval, os_info, first, stats, json,
                    trace, tick, exit_code >>

\* lines 222-224: else { vec![] }
CsNoProcesses(t) ==
    /\ pc[t] = "cs_no_processes"
    /\ frame' = [frame EXCEPT ![t].processes = << >>]
    /\ Goto(t, "cs_drop")
    /\ UNCHANGED << profile, argv, SYS, interval, os_info, first, stats, json,
                    trace, tick, exit_code >>

\* line 227: drop(sys)
CsDrop(t) ==
    /\ pc[t] = "cs_drop"
    /\ SYS' = Unlocked(SYS)
    /\ trace' = Log(t, Event("unlock", "collect_stats"))
    /\ Goto(t, "cs_disks")
    /\ UNCHANGED << profile, argv, interval, os_info, first, frame, stats, json,
                    tick, exit_code >>

\* lines 230-240: Disks::new_with_refreshed_list(), filter, map
CsDisks(t) ==
    /\ pc[t] = "cs_disks"
    /\ \E list \in EnvDisks(profile) :
          frame' = [frame EXCEPT ![t].disks_info = list,
                                    ![t].disks = FilterMapDisks(list)]
    /\ trace' = Log(t, Event("disks", "collect_stats"))
    /\ Goto(t, "cs_network")
    /\ UNCHANGED << profile, argv, SYS, interval, os_info, first, stats, json,
                    tick, exit_code >>

\* lines 243-258: Networks::new_with_refreshed_list(), refresh, filter, map
CsNetwork(t) ==
    /\ pc[t] = "cs_network"
    /\ \E list \in EnvNets(profile) :
          frame' = [frame EXCEPT ![t].networks = list,
                                    ![t].network = FilterMapNets(list)]
    /\ trace' = Log(t, Event("networks", "collect_stats"))
    /\ Goto(t, "cs_return")
    /\ UNCHANGED << profile, argv, SYS, interval, os_info, first, stats, json,
                    tick, exit_code >>

\* lines 260-268: Stats { cpu, cpu_avg, memory, disks, network, processes, os }
MkStats(f) ==
    [cpu |-> f.cpu, cpu_avg |-> f.cpu_avg, memory |-> Unwrap(f.memory),
     disks |-> f.disks, network |-> f.network, processes |-> f.processes,
     os |-> f.os_info]

CsReturn(t) ==
    /\ pc[t] = "cs_return"
    /\ stats' = [stats EXCEPT ![t] = Some(MkStats(frame[t]))]
    /\ trace' = Log(t, Event("sample", MkStats(frame[t])))
    /\ Goto(t, ReturnPc(t))
    /\ UNCHANGED << profile, argv, SYS, interval, os_info, first, frame, json,
                    tick, exit_code >>

CollectStats(t) ==
    \/ CsLock(t) \/ CsRefreshMemory(t) \/ CsRefreshCpu(t) \/ CsReadCpu(t)
    \/ CsReadMemory(t) \/ CsRefreshProcesses(t) \/ CsRankProcesses(t)
    \/ CsNoProcesses(t) \/ CsDrop(t) \/ CsDisks(t) \/ CsNetwork(t) \/ CsReturn(t)

\* ------------------------------------------------------------------- main
\* line 96: "daemon" => daemon_mode(args.get(2)..unwrap_or(5))
MainDaemon ==
    /\ pc[Main] = "main"
    /\ Command = "daemon"
    /\ interval' = IntervalOf(argv)
    /\ Goto(Main, "dm_get_os_info")
    /\ UNCHANGED << profile, argv, SYS, os_info, first, frame, stats, json,
                    trace, tick, exit_code >>

\* json_once entered past its warm-up block.
MainJsonOnceCold ==
    /\ pc[Main] = "main"
    /\ Command \in {"json", "json-processes"}
    /\ Goto(Main, "jo_call")
    /\ UNCHANGED << profile, argv, SYS, interval, os_info, first, frame, stats,
                    json, trace, tick, exit_code >>

\* lines 101, 102, 110: json_once(false) / json_once(true)
MainJsonOnce ==
    /\ pc[Main] = "main"
    /\ Command \in {"json", "json-processes"}
    /\ Goto(Main, "jo_warm_lock")
    /\ UNCHANGED << profile, argv, SYS, interval, os_info, first, frame, stats,
                    json, trace, tick, exit_code >>

\* lines 103-105: println!("stats-agent v{}", ..)
MainVersion ==
    /\ pc[Main] = "main"
    /\ Command = "version"
    /\ trace' = Log(Main, Event("stdout", [fmt |-> "version"]))
    /\ Goto(Main, "main_return")
    /\ UNCHANGED << profile, argv, SYS, interval, os_info, first, frame, stats,
                    json, tick, exit_code >>

\* An unknown command falling through to the default single-shot sample.
MainUsageThenSample ==
    /\ pc[Main] = "main"
    /\ Command \notin {"daemon", "json", "json-processes", "version"}
    /\ trace' = Log(Main, Event("stderr", "usage"))
    /\ Goto(Main, "jo_warm_lock")
    /\ UNCHANGED << profile, argv, SYS, interval, os_info, first, frame, stats,
                    json, tick, exit_code >>

\* lines 106, 114-124: print_usage()
MainUsage ==
    /\ pc[Main] = "main"
    /\ Command \notin {"daemon", "json", "json-processes", "version"}
    /\ trace' = Log(Main, Event("stderr", "usage"))
    /\ Goto(Main, "main_return")
    /\ UNCHANGED << profile, argv, SYS, interval, os_info, first, frame, stats,
                    json, tick, exit_code >>

\* line 112: main returns (from print_usage, the version arm or json_once,
\* whichever arm of its match ran): the process exits with status 0.
MainReturn ==
    /\ pc[Main] = "main_return"
    /\ exit_code' = Some(0)
    /\ trace' = Log(Main, Event("exit", 0))
    /\ Goto(Main, "exited")
    /\ UNCHANGED << profile, argv, SYS, interval, os_info, first, frame, stats,
                    json, tick >>

\* ------------------------------------------------ the warm-up (both modes)
\* lines 138 / 292: let mut sys = SYS.lock().unwrap();
WarmLock(from, to) ==
    /\ pc[Main] = from
    /\ CanLock(SYS)
    /\ SYS' = Locked(SYS, Main)
    /\ trace' = Log(Main, Event("lock", "warmup"))
    /\ Goto(Main, to)
    /\ UNCHANGED << profile, argv, interval, os_info, first, frame, stats, json,
                    tick, exit_code >>

\* lines 139 / 293: sys.refresh_cpu_specifics(..)
WarmRefresh(from, to) ==
    /\ pc[Main] = from
    /\ \E c \in EnvCpu(profile, SYS.sys) : SYS' = RefreshCpu(SYS, Main, c)
    /\ trace' = Log(Main, Event("refresh_cpu", "warmup"))
    /\ Goto(Main, to)
    /\ UNCHANGED << profile, argv, interval, os_info, first, frame, stats, json,
                    tick, exit_code >>

\* The warm-up guard not scoped to its block: it is still alive afterwards.
WarmUnlockForgotten(from, to) ==
    /\ pc[Main] = from
    /\ Goto(Main, to)
    /\ UNCHANGED << profile, argv, SYS, interval, os_info, first, frame, stats,
                    json, trace, tick, exit_code >>

\* lines 140 / 294: the guard's block ends
WarmUnlock(from, to) ==
    /\ pc[Main] = from
    /\ SYS' = Unlocked(SYS)
    /\ trace' = Log(Main, Event("unlock", "warmup"))
    /\ Goto(Main, to)
    /\ UNCHANGED << profile, argv, interval, os_info, first, frame, stats, json,
                    tick, exit_code >>

\* A warm-up that does not wait.
WarmSleepZero(from, to) ==
    /\ pc[Main] = from
    /\ trace' = Log(Main, Event("sleep", 0))
    /\ Goto(Main, to)
    /\ UNCHANGED << profile, argv, SYS, interval, os_info, first, frame, stats,
                    json, tick, exit_code >>

\* lines 141 / 295: thread::sleep(Duration::from_millis(500))
WarmSleep(from, to) ==
    /\ pc[Main] = from
    /\ trace' = Log(Main, Event("sleep", WarmupMs))
    /\ Goto(Main, to)
    /\ UNCHANGED << profile, argv, SYS, interval, os_info, first, frame, stats,
                    json, tick, exit_code >>

\* ------------------------------------------------------------ daemon_mode
\* line 134: let os_info = get_os_info();
DmGetOsInfo ==
    /\ pc[Main] = "dm_get_os_info"
    /\ os_info' = Some(OsInfoValue)
    /\ Goto(Main, "dm_warm_lock")
    /\ UNCHANGED << profile, argv, SYS, interval, first, frame, stats, json,
                    trace, tick, exit_code >>

DmWarmLock == WarmLock("dm_warm_lock", "dm_warm_refresh")
DmWarmRefresh == WarmRefresh("dm_warm_refresh", "dm_warm_unlock")
DmWarmUnlock == WarmUnlock("dm_warm_unlock", "dm_warm_sleep")
DmWarmSleep == WarmSleep("dm_warm_sleep", "dm_init_first")

\* line 144: let mut first = true;
DmInitFirst ==
    /\ pc[Main] = "dm_init_first"
    /\ first' = TRUE
    /\ Goto(Main, "dm_loop")
    /\ UNCHANGED << profile, argv, SYS, interval, os_info, frame, stats, json,
                    trace, tick, exit_code >>

\* line 147: if first { os_info.clone() } else { None }
OsArg(f, os) == IF f THEN os ELSE None

\* line 147: collect_stats(.., false) is called
DmCall ==
    /\ pc[Main] = "dm_loop"
    /\ frame' = [frame EXCEPT ![Main] = NewFrame(OsArg(first, os_info), FALSE)]
    /\ tick' = Min(tick + 1, MaxTicks + 1)
    /\ Goto(Main, "cs_lock")
    /\ UNCHANGED << profile, argv, SYS, interval, os_info, first, stats, json,
                    trace, exit_code >>

\* line 148: first = false;
DmClearFirst ==
    /\ pc[Main] = "dm_clear_first"
    /\ first' = FALSE
    /\ Goto(Main, "dm_serialize")
    /\ UNCHANGED << profile, argv, SYS, interval, os_info, frame, stats, json,
                    trace, tick, exit_code >>

\* serde_json::to_string(&stats) / to_string_pretty(&stats): Ok(text) or
\* Err(e); the caller matches on both.
SerializeResults(s, fmt) ==
    { [ok |-> TRUE, fmt |-> fmt, text |-> ToJson(s)],
      [ok |-> FALSE, fmt |-> fmt, text |-> << >>] }

\* line 150: match serde_json::to_string(&stats)
DmSerialize ==
    /\ pc[Main] = "dm_serialize"
    /\ \E r \in SerializeResults(Unwrap(stats[Main]), "compact") :
          /\ json' = Some(r)
          /\ trace' = Log(Main, Event("serialize", r.ok))
          /\ Goto(Main, IF r.ok THEN "dm_println" ELSE "dm_eprintln")
    /\ UNCHANGED << profile, argv, SYS, interval, os_info, first, frame, stats,
                    tick, exit_code >>

\* line 152: println!("{}", json)
DmPrintln ==
    /\ pc[Main] = "dm_println"
    /\ trace' = Log(Main, Event("stdout", Unwrap(json)))
    /\ Goto(Main, "dm_flush")
    /\ UNCHANGED << profile, argv, SYS, interval, os_info, first, frame, stats,
                    json, tick, exit_code >>

\* The flush left out.
DmFlushSkipped ==
    /\ pc[Main] = "dm_flush"
    /\ Goto(Main, "dm_sleep")
    /\ UNCHANGED << profile, argv, SYS, interval, os_info, first, frame, stats,
                    json, trace, tick, exit_code >>

\* line 153: let _ = io::stdout().flush();
DmFlush ==
    /\ pc[Main] = "dm_flush"
    /\ trace' = Log(Main, Event("flush", "stdout"))
    /\ Goto(Main, "dm_sleep")
    /\ UNCHANGED << profile, argv, SYS, interval, os_info, first, frame, stats,
                    json, tick, exit_code >>

\* The Err arm ending the run instead of falling through to the sleep.
DmEprintlnExit ==
    /\ pc[Main] = "dm_eprintln"
    /\ trace' = Log(Main, Event("stderr", "Error serializing stats"))
    /\ Goto(Main, "main_return")
    /\ UNCHANGED << profile, argv, SYS, interval, os_info, first, frame, stats,
                    json, tick, exit_code >>

\* line 156: eprintln!("Error serializing stats: {}", e)
DmEprintln ==
    /\ pc[Main] = "dm_eprintln"
    /\ trace' = Log(Main, Event("stderr", "Error serializing stats"))
    /\ Goto(Main, "dm_sleep")
    /\ UNCHANGED << profile, argv, SYS, interval, os_info, first, frame, stats,
                    json, tick, exit_code >>

\* The loop left after its first sleep.
DmSleepBreak ==
    /\ pc[Main] = "dm_sleep"
    /\ trace' = Log(Main, Event("sleep", interval * 1000))
    /\ stats' = [stats EXCEPT ![Main] = None]
    /\ json' = None
    /\ Goto(Main, "main_return")
    /\ UNCHANGED << profile, argv, SYS, interval, os_info, first, frame, tick,
                    exit_code >>

\* line 160: thread::sleep(interval); the loop body's values are dropped
DmSleep ==
    /\ pc[Main] = "dm_sleep"
    /\ trace' = Log(Main, Event("sleep", interval * 1000))
    /\ stats' = [stats EXCEPT ![Main] = None]
    /\ json' = None
    /\ Goto(Main, "dm_loop")
    /\ UNCHANGED << profile, argv, SYS, interval, os_info, first, frame, tick,
                    exit_code >>

\* -------------------------------------------------------------- json_once
JoWarmLock == WarmLock("jo_warm_lock", "jo_warm_refresh")
JoWarmRefresh == WarmRefresh("jo_warm_refresh", "jo_warm_unlock")
JoWarmUnlock == WarmUnlock("jo_warm_unlock", "jo_warm_sleep")
JoWarmSleep == WarmSleep("jo_warm_sleep", "jo_call")

\* line 297: collect_stats(get_os_info(), include_processes)
JoCall ==
    /\ pc[Main] = "jo_call"
    /\ frame' = [frame EXCEPT
                   ![Main] = NewFrame(Some(OsInfoValue), Command = "json-processes")]
    /\ tick' = Min(tick + 1, MaxTicks + 1)
    /\ Goto(Main, "cs_lock")
    /\ UNCHANGED << profile, argv, SYS, interval, os_info, first, stats, json,
                    trace, exit_code >>

\* line 299: match serde_json::to_string_pretty(&stats)
JoSerialize ==
    /\ pc[Main] = "jo_serialize"
    /\ \E r \in SerializeResults(Unwrap(stats[Main]), "pretty") :
          /\ json' = Some(r)
          /\ trace' = Log(Main, Event("serialize", r.ok))
          /\ Goto(Main, IF r.ok THEN "jo_println" ELSE "jo_eprintln")
    /\ UNCHANGED << profile, argv, SYS, interval, os_info, first, frame, stats,
                    tick, exit_code >>

\* line 300: Ok(json) => println!("{}", json)
JoPrintln ==
    /\ pc[Main] = "jo_println"
    /\ trace' = Log(Main, Event("stdout", Unwrap(json)))
    /\ Goto(Main, "main_return")
    /\ UNCHANGED << profile, argv, SYS, interval, os_info, first, frame, stats,
                    json, tick, exit_code >>

\* line 301: Err(e) => eprintln!("Error: {}", e)
JoEprintln ==
    /\ pc[Main] = "jo_eprintln"
    /\ trace' = Log(Main, Event("stderr", "Error"))
    /\ Goto(Main, "main_return")
    /\ UNCHANGED << profile, argv, SYS, interval, os_info, first, frame, stats,
                    json, tick, exit_code >>

\* ------------------------------------------------- an embedding caller
\* A thread of an embedding service asks for a sample: collect_stats(None, b)
CallerCall(t) ==
    /\ pc[t] = "call"
    /\ \E b \in BOOLEAN : frame' = [frame EXCEPT ![t] = NewFrame(None, b)]
    /\ stats' = [stats EXCEPT ![t] = None]
    /\ Goto(t, "cs_lock")
    /\ UNCHANGED << profile, argv, SYS, interval, os_info, first, json, trace,
                    tick, exit_code >>

\* --------------------------------------------------------- specifications
Program == "stats-agent"

IntervalArgs ==
    { << "0" >>, << "1" >>, << "+", "2" >>, << "1", "0" >>, << "1", "x" >>,
      << "-", "1" >>, << >> }

Argvs ==
    { << Program >>, << Program, "daemon" >>, << Program, "json" >>,
      << Program, "json-processes" >>, << Program, "version" >>,
      << Program, "status" >> }
      \cup { << Program, "daemon", a >> : a \in IntervalArgs }

InitCommon ==
    /\ interval = 0
    /\ os_info = None
    /\ first = FALSE
    /\ frame = [t \in Threads |-> NewFrame(None, FALSE)]
    /\ stats = [t \in Threads |-> None]
    /\ json = None
    /\ trace = << >>
    /\ tick = 0
    /\ exit_code = None

\* The program as it is started from the command line: one thread.
Init ==
    /\ profile = "small"
    /\ argv \in Argvs
    /\ pc = [t \in Threads |-> IF t = Main THEN "main" ELSE "idle"]
    /\ SYS = [locked_by |-> NoThread, created |-> 0, sys |-> NewSystem]
    /\ InitCommon

Next ==
    \/ MainDaemon \/ MainJsonOnce \/ MainVersion \/ MainUsage \/ MainReturn
    \/ DmGetOsInfo \/ DmWarmLock \/ DmWarmRefresh \/ DmWarmUnlock \/ DmWarmSleep
    \/ DmInitFirst \/ DmCall \/ DmClearFirst \/ DmSerialize \/ DmPrintln
    \/ DmFlush \/ DmEprintln \/ DmSleep
    \/ JoWarmLock \/ JoWarmRefresh \/ JoWarmUnlock \/ JoWarmSleep \/ JoCall
    \/ JoSerialize \/ JoPrintln \/ JoEprintln
    \/ CollectStats(Main)

Spec == Init /\ [][Next]_vars

\* The single thread always runs: every statement that can execute does.
FairSpec == Init /\ [][Next]_vars /\ WF_vars(Next)

\* collect_stats embedded in a service: NCallers threads sample on demand,
\* sharing a handle that has been warmed up.
InitCallers ==
    /\ profile = "small"
    /\ argv = << Program >>
    /\ pc = [t \in Threads |-> IF t = Main THEN "idle" ELSE "call"]
    /\ \E w \in WarmedSystems :
          /\ Len(w.cpus) = 2
          /\ SYS = [locked_by |-> NoThread, created |-> 1, sys |-> w]
    /\ InitCommon

NextCallers == \E t \in Callers : CallerCall(t) \/ CollectStats(t)

SpecCallers == InitCallers /\ [][NextCallers]_vars

\* One call by one caller, with one kind of OS reading ranging over all its
\* values.
Sampler == CHOOSE t \in Callers : \A u \in Callers : t <= u

InitSample ==
    /\ profile \in Profiles \ {"small"}
    /\ argv = << Program >>
    /\ pc = [t \in Threads |-> IF t = Sampler THEN "call" ELSE "idle"]
    /\ \E w \in WarmedSystems :
          /\ profile # "cpu" => Len(w.cpus) = 2
          /\ SYS = [locked_by |-> NoThread, created |-> 1, sys |-> w]
    /\ InitCommon

NextSample == CallerCall(Sampler) \/ CollectStats(Sampler)

SpecSample == InitSample /\ [][NextSample]_vars

\* The program embedded in a service (spec section 5): the main thread runs
\* a command while one more thread samples on demand, both on the one
\* handle.  Side effects are not recorded here.  The process, and every
\* thread with it, ends when main returns.
InitEmbedded ==
    /\ profile = "small"
    /\ argv \in { << Program, "daemon" >>, << Program, "json-processes" >>,
                  << Program, "version" >>, << Program, "status" >> }
    /\ pc = [t \in Threads |-> IF t = Main THEN "main"
                              ELSE IF t = Sampler THEN "call" ELSE "returned"]
    /\ SYS = [locked_by |-> NoThread, created |-> 0, sys |-> NewSystem]
    /\ interval = 0
    /\ os_info = None
    /\ first = FALSE
    /\ frame = [t \in Threads |-> NewFrame(None, FALSE)]
    /\ stats = [t \in Threads |-> None]
    /\ json = None
    /\ trace = << >>
    /\ tick = MaxTicks + 1
    /\ exit_code = None

CallerStep(t) == pc[Main] # "exited" /\ (CallerCall(t) \/ CollectStats(t))
CallerLock(t) == pc[Main] # "exited" /\ CsLock(t)
MainLock == DmWarmLock \/ JoWarmLock \/ CsLock(Main)

NextEmbedded == Next \/ \E t \in Callers : CallerStep(t)

\* Fair scheduling: a thread that can run does run, and a thread waiting for
\* the mutex gets it if it is free again and again.
SpecEmbedded ==
    /\ InitEmbedded /\ [][NextEmbedded]_vars
    /\ WF_vars(Next) /\ SF_vars(MainLock)
    /\ \A t \in Callers : WF_vars(CallerStep(t)) /\ SF_vars(CallerLock(t))

\* ============================================================ properties
\* Reading the trace.
Daemon == Command = "daemon"
SingleShot == Command \in {"json", "json-processes"}

IsOp(i, op) == trace[i].op = op
IsHandleOp(i, op, who) == trace[i].op = op /\ trace[i].arg = who
Positions(op) == { i \in DOMAIN trace : IsOp(i, op) }
\* The records written to standard output, and whether record i carries os.
Emitted == Positions("stdout")
HasOs(i) == "os" \in DOMAIN trace[i].arg.text
FailedSerializations == { i \in Positions("serialize") : ~trace[i].arg }

\* ------------------------------------------------------------------- C1
\* C1: in daemon mode the os field is on exactly the first record that is
\* actually written to standard output and on no later record, also in runs
\* where the serialization of some tick fails.
C1_OsOnFirstEmittedRecord ==
    Daemon =>
        \A i \in Emitted : HasOs(i) <=> (\A j \in Emitted : i <= j)

\* ------------------------------------------------------------------- C2
\* C2: in daemon mode and in single-shot mode the first collect_stats call
\* comes after one throw-away CPU refresh of the shared handle followed by
\* the warm-up delay, and that warm-up happens exactly once per run.
WarmRefreshes == { i \in DOMAIN trace : IsHandleOp(i, "refresh_cpu", "warmup") }
WarmSleeps == { i \in Positions("sleep") : trace[i].arg = WarmupMs }
CollectCalls == { i \in DOMAIN trace : IsHandleOp(i, "lock", "collect_stats") }

C2_WarmUpOnceBeforeFirstSample ==
    /\ Cardinality(WarmRefreshes) <= 1
    /\ Cardinality(WarmSleeps) <= 1
    /\ \A c \in CollectCalls :
          \E r \in WarmRefreshes, s \in WarmSleeps :
             /\ r < s /\ s < c
             /\ \A k \in (r + 1)..(s - 1) : ~IsOp(k, "refresh_cpu")
    /\ \A c \in CollectCalls :
          (\A d \in CollectCalls : c <= d) =>
             /\ c > 2
             /\ IsOp(c - 1, "sleep") /\ trace[c - 1].arg = WarmupMs
             /\ IsHandleOp(c - 2, "unlock", "warmup")
    /\ tick >= 1 => Cardinality(WarmRefreshes) = 1 /\ Cardinality(WarmSleeps) = 1

\* A daemon run that has sampled three times after its one warm-up.
C2_Witness ==
    /\ Daemon
    /\ Cardinality(Positions("sample")) = 3
    /\ Cardinality(WarmRefreshes) = 1

\* ------------------------------------------------------------------- C3
\* The statements of collect_stats between SYS.lock() and drop(sys), and
\* those after a value has been read from the handle.
CriticalPcs ==
    {"cs_refresh_memory", "cs_refresh_cpu", "cs_read_cpu", "cs_read_memory",
     "cs_refresh_processes", "cs_rank_processes", "cs_no_processes", "cs_drop"}
AfterCpuRead ==
    {"cs_read_memory", "cs_refresh_processes", "cs_rank_processes",
     "cs_no_processes", "cs_drop", "cs_disks", "cs_network", "cs_return"}
AfterMemoryRead == AfterCpuRead \ {"cs_read_memory"}
AfterProcessRead == {"cs_drop", "cs_disks", "cs_network", "cs_return"}
InCritical(t) == pc[t] \in CriticalPcs

\* C3: at most one thread is inside the critical section of the shared
\* handle, and the values a collect_stats call reads (cpu, memory, and the
\* process table when requested) are those its own refresh produced: no
\* other caller's refresh comes between a caller's refresh and its reads.
C3_OneCriticalSection ==
    /\ Cardinality({ t \in Threads : InCritical(t) }) <= 1
    /\ \A t \in Threads :
          /\ InCritical(t) => SYS.locked_by = t
          /\ pc[t] \in {"cs_read_cpu", "cs_read_memory"} => SYS.sys.cpu_by = t
          /\ pc[t] \in {"cs_refresh_cpu", "cs_read_cpu", "cs_read_memory"}
                => SYS.sys.mem_by = t
          /\ pc[t] = "cs_rank_processes" => SYS.sys.proc_by = t
          /\ pc[t] \in AfterCpuRead => frame[t].cpu_from = t
          /\ pc[t] \in AfterMemoryRead => frame[t].mem_from = t
          /\ pc[t] \in AfterProcessRead /\ frame[t].include_processes
                => frame[t].proc_from = t

\* One caller has refreshed the handle and is about to read it while another,
\* past its own critical section, still holds the values of its own refresh.
C3_Witness ==
    \E t, u \in Callers :
       /\ t # u
       /\ pc[t] = "cs_read_cpu"
       /\ SYS.sys.cpu_by = t
       /\ pc[u] = "cs_network"
       /\ frame[u].cpu_from = u
       /\ frame[u].include_processes /\ frame[u].proc_from = u

\* ------------------------------------------------------------------- C4
\* The statements of collect_stats the sampling caller has passed.
Ranked == pc[Sampler] \in {"cs_drop", "cs_disks", "cs_network", "cs_return", "returned"}
Returned == pc[Sampler] = "returned"
Table == SYS.sys.processes
KeptPids == { frame[Sampler].processes[i].pid : i \in DOMAIN frame[Sampler].processes }
Percent(p) == Round2(p.cpu_usage)

\* C4: when process detail is requested, for every process table, the
\* processes list has at most 10 entries, is sorted non-increasing by cpu
\* percent, and holds the entries of the table with the highest cpu percent:
\* no omitted entry has a strictly higher cpu percent than a kept one.
C4_TopTenByCpu ==
    Ranked /\ frame[Sampler].include_processes =>
        LET out == frame[Sampler].processes
        IN /\ Len(out) <= 10
           /\ Len(out) = Min(Len(Table), 10)
           /\ \A i, j \in DOMAIN out : i < j => out[i].cpu >= out[j].cpu
           /\ \A i, j \in DOMAIN out : i # j => out[i].pid # out[j].pid
           /\ \A i \in DOMAIN out :
                 \E k \in DOMAIN Table :
                    /\ Table[k].pid = out[i].pid
                    /\ Table[k].memory = out[i].memory
                    /\ Percent(Table[k]) = out[i].cpu
           /\ \A k \in DOMAIN Table :
                 Table[k].pid \notin KeptPids =>
                    \A i \in DOMAIN out : Percent(Table[k]) <= out[i].cpu
           /\ Returned => Unwrap(stats[Sampler]).processes = out

\* Eleven processes, the busiest enumerated last and an idle one first: one
\* entry is cut, and it is an idle one.
C4_Witness ==
    /\ Returned
    /\ frame[Sampler].include_processes
    /\ Len(Table) = 11
    /\ Table[1].cpu_usage = 0
    /\ Table[11].cpu_usage > 0
    /\ Len(frame[Sampler].processes) = 10
    /\ frame[Sampler].processes[1].pid = 11

\* ------------------------------------------------------------------- C5
Enumerated == pc[Sampler] \in {"cs_return", "returned"}

\* s lists, in increasing order, exactly the members of the set K.
ListsExactly(s, K) ==
    /\ Len(s) = Cardinality(K)
    /\ \A j \in DOMAIN s : s[j] \in K
    /\ \A i, j \in DOMAIN s : i < j => s[i] < s[j]

\* C5: disks holds exactly the enumerated volumes with total > 0, and
\* network exactly the enumerated interfaces whose received or transmitted
\* byte count is nonzero, each in enumeration order; so no disks entry has
\* total = 0 and no network entry has both counters zero.
C5_DisksAndNetworkFiltered ==
    Enumerated =>
        LET f == frame[Sampler]
            vol == f.disks_info
            ifs == f.networks
        IN /\ \A j \in DOMAIN f.disks : f.disks[j].total > 0
           /\ \A j \in DOMAIN f.network :
                 f.network[j].rx_bytes > 0 \/ f.network[j].tx_bytes > 0
           /\ ListsExactly([j \in DOMAIN f.disks |-> f.disks[j].name],
                           { i \in DOMAIN vol : vol[i].total_space # 0 })
           /\ \A j \in DOMAIN f.disks :
                 /\ f.disks[j].total = vol[f.disks[j].name].total_space
                 /\ f.disks[j].available = vol[f.disks[j].name].available_space
           /\ ListsExactly([j \in DOMAIN f.network |-> f.network[j].interface],
                           { i \in DOMAIN ifs : ifs[i].total_received # 0
                                                \/ ifs[i].total_transmitted # 0 })
           /\ \A j \in DOMAIN f.network :
                 /\ f.network[j].rx_bytes = ifs[f.network[j].interface].total_received
                 /\ f.network[j].tx_bytes = ifs[f.network[j].interface].total_transmitted
           /\ Returned =>
                 /\ Unwrap(stats[Sampler]).disks = f.disks
                 /\ Unwrap(stats[Sampler]).network = f.network

\* An idle interface enumerated before one that has only transmitted: the
\* first is dropped, the second kept; and a zero-capacity volume is dropped.
C5_Witness ==
    /\ Returned
    /\ profile = "nets"
    /\ Len(frame[Sampler].networks) = 2
    /\ frame[Sampler].networks[1].total_received = 0
    /\ frame[Sampler].networks[1].total_transmitted = 0
    /\ frame[Sampler].networks[2].total_received = 0
    /\ frame[Sampler].networks[2].total_transmitted = 1
    /\ Len(frame[Sampler].network) = 1
    /\ Len(frame[Sampler].disks_info) = 2
    /\ Len(frame[Sampler].disks) = 1

\* ------------------------------------------------------------------- C6
CpuRead == pc[Sampler] \in (AfterCpuRead \cup {"returned"})

\* C6: every cpu[i] lies in 0.00 .. 100.00 and is the core's usage rounded
\* to the nearest hundredth; cpu_avg is the mean of the cpu list rounded to
\* the nearest hundredth (a half rounds up), and 0 when the list is empty.
C6_CpuRoundedMean ==
    CpuRead =>
        LET cpu == frame[Sampler].cpu
            avg == frame[Sampler].cpu_avg
            n == Len(cpu)
        IN /\ n = Len(SYS.sys.cpus)
           /\ \A i \in DOMAIN cpu :
                 /\ 0 <= cpu[i] /\ cpu[i] <= 10000
                 /\ 10 * cpu[i] - 5 <= SYS.sys.cpus[i]
                 /\ SYS.sys.cpus[i] < 10 * cpu[i] + 5
           /\ n = 0 => avg = 0
           /\ n > 0 =>
                 /\ 2 * n * avg - n <= 2 * Sum(cpu)
                 /\ 2 * Sum(cpu) < 2 * n * avg + n
           /\ Returned =>
                 /\ Unwrap(stats[Sampler]).cpu = cpu
                 /\ Unwrap(stats[Sampler]).cpu_avg = avg

\* Three cores whose mean has a remainder of two thirds of a hundredth: the
\* mean is rounded up; one core at 99.994 and one read at 0.005.
C6_Witness ==
    /\ Returned
    /\ Len(frame[Sampler].cpu) = 3
    /\ Sum(frame[Sampler].cpu) % 3 = 2
    /\ 3 * frame[Sampler].cpu_avg > Sum(frame[Sampler].cpu)
    /\ \E i \in 1..3 : SYS.sys.cpus[i] = 99994
    /\ \E i \in 1..3 : SYS.sys.cpus[i] = 5

\* ------------------------------------------------------------------- C7
IsTickOp(e) == e.op \in {"sample", "stdout", "sleep"}
\* The samples, emissions and sleeps of the run, in order; the first sleep
\* is the warm-up delay.
TickEvents == SelectSeq(trace, IsTickOp)

TickOrder ==
    LET f == TickEvents
    IN /\ f # << >> => f[1].op = "sleep" /\ f[1].arg = WarmupMs
       /\ \A i \in 2..Len(f) :
             /\ f[i - 1].op = "sleep" => f[i].op = "sample"
             /\ f[i - 1].op = "sample" => f[i].op \in {"stdout", "sleep"}
             /\ f[i - 1].op = "stdout" => f[i].op = "sleep"
             /\ f[i].op = "stdout" => f[i].arg.text = ToJson(f[i - 1].arg)
             /\ f[i].op = "sleep" => f[i].arg = 1000 * interval

\* C7: the daemon runs WarmingUp -> (Sample, Emit, Sleep)*: after the
\* warm-up every tick takes one sample, then emits that sample at most once,
\* then sleeps the interval once, in that order; it never exits, and every
\* tick is followed by another one.
C7_DaemonTicksForever ==
    /\ [](Daemon => TickOrder)
    /\ [](Daemon => exit_code = None /\ pc[Main] \notin {"main_return", "exited"})
    /\ (Daemon /\ pc[Main] = "main") ~> (pc[Main] = "cs_return")
    /\ (Daemon /\ pc[Main] = "cs_return") ~> (pc[Main] = "dm_sleep")
    /\ (Daemon /\ pc[Main] = "dm_sleep") ~> (pc[Main] = "cs_return")

\* Three ticks recorded, one emitted and one not, with a one-second interval.
C7_Witness ==
    /\ Daemon
    /\ interval = 1
    /\ Cardinality(Positions("sample")) = 3
    /\ Cardinality(Emitted) >= 1
    /\ FailedSerializations # {}
    /\ pc[Main] = "dm_loop"

\* ------------------------------------------------------------------- C8
Samples == Positions("sample")

\* C8 as stated: a single-shot run that has ended took exactly one sample
\* and wrote exactly one record, with the os field.
C8_SingleShotAlwaysEmits ==
    SingleShot /\ pc[Main] = "exited" =>
        /\ Cardinality(Samples) = 1
        /\ Cardinality(Emitted) = 1
        /\ \A i \in Emitted : HasOs(i)

C8_Safety ==
    /\ Cardinality(Samples) <= 1
    /\ Cardinality(Emitted) <= 1
    /\ \A i \in Emitted :
          /\ HasOs(i)
          /\ trace[i].arg.fmt = "pretty"
          /\ \E k \in Samples : k < i /\ trace[i].arg.text = ToJson(trace[k].arg)
          /\ FailedSerializations = {}
    /\ pc[Main] = "exited" =>
          /\ Cardinality(Samples) = 1
          /\ Cardinality(Positions("serialize")) = 1
          /\ FailedSerializations = {} => Cardinality(Emitted) = 1
          /\ FailedSerializations # {} => Emitted = {} /\ Positions("stderr") # {}

\* C8 (amended): a single-shot run takes exactly one sample, writes exactly
\* one record on standard output, with the os field, when the serialization
\* succeeds and no record when it fails, and then terminates.
C8_SingleShotOnce ==
    /\ [](SingleShot => C8_Safety)
    /\ (SingleShot /\ pc[Main] = "main") ~> (pc[Main] = "exited")

\* A json-processes run that has ended after writing its record.
C8_Witness ==
    /\ Command = "json-processes"
    /\ pc[Main] = "exited"
    /\ Cardinality(Emitted) = 1
    /\ \A i \in Emitted : HasOs(i) /\ "processes" \in DOMAIN trace[i].arg.text

\* ------------------------------------------------------------------- C9
C9_Safety ==
    /\ exit_code = None
    /\ \A i \in FailedSerializations :
          /\ i > 1 /\ IsOp(i - 1, "sample")
          /\ i + 1 \in DOMAIN trace => IsOp(i + 1, "stderr")
          /\ i + 2 \in DOMAIN trace =>
                IsOp(i + 2, "sleep") /\ trace[i + 2].arg = 1000 * interval
          /\ i + 3 \in DOMAIN trace => IsHandleOp(i + 3, "lock", "collect_stats")
    /\ pc[Main] = "dm_sleep" /\ tick <= MaxTicks /\ ~Unwrap(json).ok =>
          /\ IsOp(Len(trace), "stderr")
          /\ IsOp(Len(trace) - 1, "serialize")

\* C9: in daemon mode a failed serialization is reported on the error
\* stream, nothing is written to standard output for that tick, the process
\* does not exit, and the loop goes on to the sleep and to the next tick.
C9_DaemonSurvivesSerializationFailure ==
    /\ [](Daemon => C9_Safety)
    /\ (Daemon /\ pc[Main] = "dm_eprintln") ~> (pc[Main] = "dm_sleep")
    /\ (Daemon /\ pc[Main] = "dm_eprintln") ~> (pc[Main] = "cs_return")

\* The first tick failed to serialize and the second tick has been sampled.
C9_Witness ==
    /\ Daemon
    /\ FailedSerializations # {}
    /\ \E i \in FailedSerializations :
          \E k \in Positions("sample") : k > i + 3
    /\ Emitted = {}

\* ------------------------------------------------------------------ C10
\* C10: in single-shot mode a failed serialization is reported on the error
\* stream, no record is written, and the process exits with a non-zero
\* status.
C10_SingleShotFailureExitsNonZero ==
    SingleShot /\ pc[Main] = "exited" /\ FailedSerializations # {} =>
        /\ Positions("stderr") # {}
        /\ Emitted = {}
        /\ Unwrap(exit_code) # 0

\* ------------------------------------------------------------------ C11
\* What each interval argument of the runs in Argvs asks for, in seconds:
\* "0", "1", "+2", "10" are numbers; "1x", "-1", "" and no argument are not.
RequestedInterval ==
    IF Len(argv) < 3 THEN 5
    ELSE CASE argv[3] = << "0" >> -> 0
           [] argv[3] = << "1" >> -> 1
           [] argv[3] = << "+", "2" >> -> 2
           [] argv[3] = << "1", "0" >> -> 10
           [] OTHER -> 5

TickSleeps == Positions("sleep") \ WarmSleeps

\* C11: a daemon whose interval argument is missing or does not parse runs
\* with the default of 5 seconds and does not fail; one whose argument
\* parses runs with exactly that interval: every sleep between ticks lasts
\* that long.
C11_IntervalOrDefault ==
    Daemon /\ pc[Main] # "main" =>
        /\ interval = RequestedInterval
        /\ exit_code = None
        /\ \A i \in TickSleeps : trace[i].arg = 1000 * RequestedInterval
        /\ pc[Main] = "dm_loop" /\ tick \in 1..MaxTicks =>
              Cardinality(TickSleeps) = tick

\* "daemon 1x" has slept five seconds after each of two ticks.
C11_Witness ==
    /\ Daemon
    /\ Len(argv) = 3
    /\ argv[3] = << "1", "x" >>
    /\ Cardinality(TickSleeps) = 2
    /\ \A i \in TickSleeps : trace[i].arg = 5000

\* ------------------------------------------------------------------ C12
NoSampling == Command \notin {"daemon", "json", "json-processes"}
HandleOps ==
    {"lock", "unlock", "refresh_cpu", "refresh_memory", "refresh_processes",
     "sleep", "disks", "networks", "sample", "serialize", "flush"}
IsSnapshot(i) == IsOp(i, "stdout") /\ trace[i].arg.fmt \in {"compact", "pretty"}
Snapshots == { i \in DOMAIN trace : IsSnapshot(i) }

C12_Safety ==
    /\ SYS = [locked_by |-> NoThread, created |-> 0, sys |-> NewSystem]
    /\ tick = 0
    /\ stats[Main] = None
    /\ \A i \in DOMAIN trace : trace[i].op \notin HandleOps
    /\ Snapshots = {}
    /\ pc[Main] = "exited" =>
          /\ Len(trace) = 2
          /\ Command = "version" => IsOp(1, "stdout") /\ trace[1].arg.fmt = "version"
          /\ Command # "version" => IsOp(1, "stderr")
          /\ IsOp(2, "exit")

\* C12: for the version command and for an unknown command the program
\* terminates without sampling: the shared handle is never created, locked
\* or refreshed, there is no warm-up, and no snapshot record is written to
\* standard output.
C12_NoSamplingCommands ==
    /\ [](NoSampling => C12_Safety)
    /\ (NoSampling /\ pc[Main] = "main") ~> (pc[Main] = "exited")

\* An unknown command has printed the usage text and exited.
C12_Witness ==
    /\ Command = "status"
    /\ pc[Main] = "exited"
    /\ IsOp(1, "stderr")
    /\ SYS.created = 0

\* ------------------------------------------------------------------ C13
NoProcessDetail == Command \in {"daemon", "json"}

\* C13: every record written by a run that did not ask for process detail
\* (single-shot summary, every daemon tick) has no processes field at all,
\* rather than an empty list.
C13_ProcessesOmitted ==
    NoProcessDetail =>
        /\ \A i \in Snapshots : "processes" \notin DOMAIN trace[i].arg.text
        /\ \A k \in Positions("sample") : trace[k].arg.processes = << >>
        /\ pc[Main] \in {"dm_println", "jo_println"} =>
              "processes" \notin DOMAIN Unwrap(json).text

\* A daemon has written two records, the first with os and the second
\* without, neither with processes.
C13_Witness ==
    /\ Daemon
    /\ Cardinality(Snapshots) = 2
    /\ \E i, j \in Snapshots : i < j /\ HasOs(i) /\ ~HasOs(j)

\* ------------------------------------------------------------------ C14
EnumerationPcs == {"cs_disks", "cs_network"}

\* C14: in every collect_stats call the lock is released before the disk
\* enumeration starts and is not held by the caller while it enumerates
\* disks or interfaces, so a caller that is enumerating never keeps another
\* caller from taking the lock.
C14_EnumerationUnlocked ==
    /\ \A t \in Threads :
          pc[t] \in EnumerationPcs \cup {"cs_return"} => SYS.locked_by # t
    /\ (\A t \in Threads : ~InCritical(t)) => CanLock(SYS)
    /\ \A t, u \in Threads :
          pc[t] \in EnumerationPcs /\ pc[u] = "cs_lock" /\ SYS.locked_by # NoThread
             => \E v \in Threads \ {t, u} : InCritical(v)

\* One caller is enumerating disks while the other has since taken the lock
\* and refreshed the handle.
C14_Witness ==
    \E t, u \in Callers :
       /\ t # u
       /\ pc[t] = "cs_disks"
       /\ pc[u] = "cs_refresh_cpu"
       /\ SYS.locked_by = u
       /\ SYS.sys.mem_by = u
       /\ frame[t].mem_from = t

\* ------------------------------------------------------------------ C15
SampleRefreshes == { i \in DOMAIN trace : IsHandleOp(i, "refresh_cpu", "collect_stats") }

\* C15: a CPU reading is taken from a warmed handle only: in a daemon run,
\* for every interval (zero included), the CPU refresh that feeds a snapshot
\* comes after an earlier CPU refresh of the handle, with a sleep of
\* non-zero length between the two.
C15_ReadingsFromWarmedHandle ==
    Daemon =>
        /\ \A i \in SampleRefreshes :
              \E j \in Positions("refresh_cpu") :
                 /\ j < i
                 /\ \E k \in (j + 1)..(i - 1) : IsOp(k, "sleep") /\ trace[k].arg > 0
        /\ pc[Main] \in {"cs_read_cpu", "cs_read_memory"} => SYS.sys.cpu_refreshes = 2

\* "daemon 0": three snapshots, the sleeps between them of length zero.
C15_Witness ==
    /\ Daemon
    /\ interval = 0
    /\ Cardinality(SampleRefreshes) = 3
    /\ \E k \in TickSleeps : trace[k].arg = 0

\* ------------------------------------------------------------------ C16
MandatoryKeys == {"cpu", "cpu_avg", "memory", "disks", "network"}

\* C16 as stated: every snapshot written, in either mode, is followed by an
\* explicit flush.
C16_EveryEmissionFlushed ==
    \A i \in Snapshots : i + 1 \in DOMAIN trace => IsOp(i + 1, "flush")

\* C16 (amended): every emission writes exactly one complete record, that
\* of the sample just taken; in daemon mode it is followed by an explicit
\* flush and then the sleep; in single-shot mode it is followed by the
\* process exit, with no explicit flush.
C16_EmissionThenFlushInDaemon ==
    /\ \A i \in Snapshots :
          /\ i > 2 /\ IsOp(i - 1, "serialize") /\ IsOp(i - 2, "sample")
          /\ trace[i].arg.text = ToJson(trace[i - 2].arg)
          /\ MandatoryKeys \subseteq DOMAIN trace[i].arg.text
          /\ Daemon =>
                /\ i + 1 \in DOMAIN trace => IsOp(i + 1, "flush")
                /\ i + 2 \in DOMAIN trace => IsOp(i + 2, "sleep")
          /\ SingleShot => (i + 1 \in DOMAIN trace => IsOp(i + 1, "exit"))
    /\ \A i \in Positions("flush") : i > 1 /\ IsSnapshot(i - 1)
    /\ Daemon /\ pc[Main] = "dm_sleep" /\ tick <= MaxTicks /\ Unwrap(json).ok =>
          IsOp(Len(trace), "flush")
    /\ SingleShot => Positions("flush") = {}

\* A daemon has written and flushed three records.
C16_Witness ==
    /\ Daemon
    /\ Cardinality(Snapshots) = 3
    /\ Cardinality(Positions("flush")) = 3

\* ------------------------------------------------------------------ C17
\* C17: entries with equal cpu percent keep their enumeration order, and
\* the kept entries are the first ten of the stably sorted table: an omitted
\* entry that ties with a kept one was enumerated after it.
C17_StableRanking ==
    Ranked /\ frame[Sampler].include_processes =>
        LET out == frame[Sampler].processes
        IN /\ \A k \in DOMAIN Table : Table[k].pid = k
           /\ \A i, j \in DOMAIN out :
                 i < j /\ out[i].cpu = out[j].cpu => out[i].pid < out[j].pid
           /\ \A k \in DOMAIN Table :
                 Table[k].pid \notin KeptPids =>
                    \A i \in DOMAIN out :
                       /\ Percent(Table[k]) <= out[i].cpu
                       /\ Percent(Table[k]) = out[i].cpu => out[i].pid < Table[k].pid

\* Eleven processes, the first and the last two equally busy, the rest idle:
\* the busy ones lead in enumeration order and the last idle one is cut.
C17_Witness ==
    /\ Returned
    /\ frame[Sampler].include_processes
    /\ Len(Table) = 11
    /\ \A k \in DOMAIN Table : Table[k].cpu_usage > 0 <=> k \in {1, 10, 11}
    /\ frame[Sampler].processes[1].pid = 1
    /\ frame[Sampler].processes[2].pid = 10
    /\ frame[Sampler].processes[3].pid = 11
    /\ frame[Sampler].processes[10].pid = 8

\* ------------------------------------------------------------------ C18
\* C18: the record of a single-shot with-processes run has the processes
\* field, whatever the process table holds, an empty ranked list included.
C18_ProcessesPresentWhenRequested ==
    Command = "json-processes" =>
        \A i \in Snapshots : "processes" \in DOMAIN trace[i].arg.text

\* ------------------------------------------------------------------ C19
C19_Safety ==
    /\ SYS.created <= 1
    /\ SYS.created = 0 => SYS.sys = NewSystem /\ Positions("lock") = {}
    /\ Positions("lock") # {} => SYS.created = 1
    /\ tick <= MaxTicks =>
          /\ SYS.sys.cpu_refreshes = Min(Cardinality(Positions("refresh_cpu")), 2)
          /\ (SYS.sys.memory # None) = (Positions("refresh_memory") # {})

C19_Step ==
    SYS.created = 1 =>
        /\ SYS'.created = 1
        /\ SYS'.sys.cpu_refreshes >= SYS.sys.cpu_refreshes
        /\ SYS.sys.cpu_refreshes >= 1 => Len(SYS'.sys.cpus) = Len(SYS.sys.cpus)
        /\ SYS.sys.memory # None => SYS'.sys.memory # None
        /\ SYS'.sys = SYS.sys
             \/ (pc[Main] \in {"dm_warm_refresh", "jo_warm_refresh", "cs_refresh_memory",
                               "cs_refresh_cpu", "cs_refresh_processes"}
                 /\ SYS.locked_by = Main)

\* C19: one metrics handle per process: it is created once, every warm-up
\* refresh and every collect_stats call works on it, and what a refresh
\* leaves in it is there for the next one; it is never created again or
\* reset between ticks.
C19_OneHandle == [](C19_Safety) /\ [][C19_Step]_vars

\* The third tick of a daemon reads the handle the warm-up created.
C19_Witness ==
    /\ Daemon
    /\ tick = 3
    /\ pc[Main] = "cs_read_cpu"
    /\ SYS.created = 1
    /\ SYS.sys.cpu_refreshes = 2
    /\ Cardinality(Positions("refresh_cpu")) = 4

\* ------------------------------------------------------------------ C20
SleepPcs == {"dm_warm_sleep", "jo_warm_sleep", "dm_sleep"}
EmitPcs == {"dm_println", "dm_flush", "dm_eprintln", "jo_println", "jo_eprintln"}
LockPcs == {"dm_warm_lock", "jo_warm_lock", "cs_lock"}
HoldingPcs == CriticalPcs \cup {"dm_warm_refresh", "dm_warm_unlock",
                                "jo_warm_refresh", "jo_warm_unlock"}

C20_Safety ==
    \A t \in Threads :
       /\ pc[t] \in SleepPcs \cup EmitPcs \cup LockPcs => SYS.locked_by # t
       /\ SYS.locked_by = t <=> pc[t] \in HoldingPcs

\* C20: no thread sleeps, emits or calls lock() again while it holds the
\* lock on the shared handle: the warm-up delay, the sleep between ticks and
\* the emission happen with the lock released; so, under fair scheduling and
\* with the callers running concurrently, every lock() returns (until the
\* process exits).
C20_NoBlockingUnderLock ==
    /\ [](C20_Safety)
    /\ \A t \in Threads :
          (pc[t] \in LockPcs) ~> (SYS.locked_by = t \/ pc[Main] = "exited")

\* The daemon, after a tick of its own, sleeps while the other thread holds
\* the lock, and the other thread has waited at lock() while the daemon
\* held it.
C20_Witness ==
    /\ Daemon
    /\ pc[Main] = "dm_sleep"
    /\ stats[Main] # None
    /\ \E t \in Callers :
          /\ pc[t] = "cs_read_cpu" /\ SYS.locked_by = t
          /\ SYS.sys.mem_by = t /\ SYS.sys.cpu_by = t

====
